---------------------------- MODULE Spec2Model ----------------------------
(***************************************************************************)
(* SHA-256 as implemented by src/src/lib.rs (struct SHA256).               *)
(*                                                                         *)
(* Representation.  A u8 is an integer in 0..255.  A u32 is a tuple of 32  *)
(* bits, most significant first (index 1 is bit 31, index 32 is bit 0),    *)
(* because a u32 does not fit the model checker's integers.  A usize/u64   *)
(* is a tuple of 8 bytes, most significant first.  Arrays keep the         *)
(* source's 0-based indices (functions on 0..n-1); a Vec is a sequence.    *)
(* A String is the sequence of its Unicode scalar values on input and a    *)
(* TLA+ string on output.                                                  *)
(***************************************************************************)
EXTENDS Integers, Sequences, FiniteSets, TLC

VARIABLES
    pc,        \* the statement about to run
    message,   \* exec's argument: the String, as Unicode scalar values
    bytes,     \* add_padding's argument `message`: the bytes held in memory
    len,       \* add_padding's `len` = message.len(), a usize
    padded,    \* add_padding's result / into_512bit_blocks' argument
    pos,       \* into_512bit_blocks: position of the iterator padded.iter()
    idx,       \* into_512bit_blocks: idx
    shift,     \* into_512bit_blocks: shift
    block,     \* into_512bit_blocks: block
    blocks,    \* into_512bit_blocks' result / hash's argument
    state,     \* hash: state
    bi,        \* hash: position of the iterator `for block in blocks`
    w,         \* hash: the message schedule w
    t,         \* hash: the loop index t
    wv,        \* hash: the working variables (a, b, c, d, e, f, g, h)
    hashed,    \* hash's result
    result     \* exec's result

vars == <<pc, message, bytes, len, padded, pos, idx, shift, block, blocks,
          state, bi, w, t, wv, hashed, result>>

-----------------------------------------------------------------------------
(* u32 values and the operations of Rust's u32 the source uses *)

Bit == {0, 1}

U32 == [1..32 -> Bit]

\* the u32 written 0xHHHHLLLL in the source, from its two 16-bit halves
Hex32(hi, lo) ==
    [i \in 1..32 |-> IF i <= 16 THEN (hi \div 2^(16 - i)) % 2
                                ELSE (lo \div 2^(32 - i)) % 2]

Zero32 == [i \in 1..32 |-> 0]

\* `byte as u32`: zero extension
U32FromU8(b) == [i \in 1..32 |-> IF i <= 24 THEN 0 ELSE (b \div 2^(32 - i)) % 2]

BitXor(x, y) == [i \in 1..32 |-> (x[i] + y[i]) % 2]

BitAnd(x, y) == [i \in 1..32 |-> x[i] * y[i]]

BitOr(x, y) == [i \in 1..32 |-> IF x[i] + y[i] > 0 THEN 1 ELSE 0]

BitNot(x) == [i \in 1..32 |-> 1 - x[i]]

\* x >> n, n in 0..31
Shr(x, n) == [i \in 1..32 |-> IF i > n THEN x[i - n] ELSE 0]

\* x << n, n in 0..31
Shl(x, n) == [i \in 1..32 |-> IF i + n <= 32 THEN x[i + n] ELSE 0]

\* x.rotate_right(n)
rotate_right(x, n) == [i \in 1..32 |-> x[((i - 1 - n) % 32) + 1]]

\* the upper and the lower 16 bits of x as integers
Hi16(x) ==
    32768 * x[1] + 16384 * x[2] + 8192 * x[3] + 4096 * x[4]
    + 2048 * x[5] + 1024 * x[6] + 512 * x[7] + 256 * x[8]
    + 128 * x[9] + 64 * x[10] + 32 * x[11] + 16 * x[12]
    + 8 * x[13] + 4 * x[14] + 2 * x[15] + x[16]

Lo16(x) ==
    32768 * x[17] + 16384 * x[18] + 8192 * x[19] + 4096 * x[20]
    + 2048 * x[21] + 1024 * x[22] + 512 * x[23] + 256 * x[24]
    + 128 * x[25] + 64 * x[26] + 32 * x[27] + 16 * x[28]
    + 8 * x[29] + 4 * x[30] + 2 * x[31] + x[32]

\* x.wrapping_add(y): the sum modulo 2^32, added in two 16-bit limbs; the
\* carry out of the upper limb is dropped
wrapping_add(x, y) ==
    LET lo == Lo16(x) + Lo16(y)
        hi == Hi16(x) + Hi16(y) + (lo \div 65536)
    IN  Hex32(hi % 65536, lo % 65536)

-----------------------------------------------------------------------------
(* constants *)

BLOCK_SIZE == 64

DELIMITER == 128

SIZE_BYTES == 8

\* const K: [u32; 64], indexed from 0
K ==
    LET tbl == <<
            Hex32(\h428a, \h2f98), Hex32(\h7137, \h4491),
            Hex32(\hb5c0, \hfbcf), Hex32(\he9b5, \hdba5),
            Hex32(\h3956, \hc25b), Hex32(\h59f1, \h11f1),
            Hex32(\h923f, \h82a4), Hex32(\hab1c, \h5ed5),
            Hex32(\hd807, \haa98), Hex32(\h1283, \h5b01),
            Hex32(\h2431, \h85be), Hex32(\h550c, \h7dc3),
            Hex32(\h72be, \h5d74), Hex32(\h80de, \hb1fe),
            Hex32(\h9bdc, \h06a7), Hex32(\hc19b, \hf174),
            Hex32(\he49b, \h69c1), Hex32(\hefbe, \h4786),
            Hex32(\h0fc1, \h9dc6), Hex32(\h240c, \ha1cc),
            Hex32(\h2de9, \h2c6f), Hex32(\h4a74, \h84aa),
            Hex32(\h5cb0, \ha9dc), Hex32(\h76f9, \h88da),
            Hex32(\h983e, \h5152), Hex32(\ha831, \hc66d),
            Hex32(\hb003, \h27c8), Hex32(\hbf59, \h7fc7),
            Hex32(\hc6e0, \h0bf3), Hex32(\hd5a7, \h9147),
            Hex32(\h06ca, \h6351), Hex32(\h1429, \h2967),
            Hex32(\h27b7, \h0a85), Hex32(\h2e1b, \h2138),
            Hex32(\h4d2c, \h6dfc), Hex32(\h5338, \h0d13),
            Hex32(\h650a, \h7354), Hex32(\h766a, \h0abb),
            Hex32(\h81c2, \hc92e), Hex32(\h9272, \h2c85),
            Hex32(\ha2bf, \he8a1), Hex32(\ha81a, \h664b),
            Hex32(\hc24b, \h8b70), Hex32(\hc76c, \h51a3),
            Hex32(\hd192, \he819), Hex32(\hd699, \h0624),
            Hex32(\hf40e, \h3585), Hex32(\h106a, \ha070),
            Hex32(\h19a4, \hc116), Hex32(\h1e37, \h6c08),
            Hex32(\h2748, \h774c), Hex32(\h34b0, \hbcb5),
            Hex32(\h391c, \h0cb3), Hex32(\h4ed8, \haa4a),
            Hex32(\h5b9c, \hca4f), Hex32(\h682e, \h6ff3),
            Hex32(\h748f, \h82ee), Hex32(\h78a5, \h636f),
            Hex32(\h84c8, \h7814), Hex32(\h8cc7, \h0208),
            Hex32(\h90be, \hfffa), Hex32(\ha450, \h6ceb),
            Hex32(\hbef9, \ha3f7), Hex32(\hc671, \h78f2) >>
    IN  [i \in 0..63 |-> tbl[i + 1]]

\* const H: [u32; 8], indexed from 0
H ==
    LET tbl == <<
            Hex32(\h6a09, \he667), Hex32(\hbb67, \hae85),
            Hex32(\h3c6e, \hf372), Hex32(\ha54f, \hf53a),
            Hex32(\h510e, \h527f), Hex32(\h9b05, \h688c),
            Hex32(\h1f83, \hd9ab), Hex32(\h5be0, \hcd19) >>
    IN  [i \in 0..7 |-> tbl[i + 1]]

-----------------------------------------------------------------------------
(* bit opes functions *)

ch(x, y, z) == BitXor(BitAnd(x, y), BitAnd(BitNot(x), z))

maj(x, y, z) == BitXor(BitXor(BitAnd(x, y), BitAnd(x, z)), BitAnd(y, z))

SIGMA0(x) == BitXor(BitXor(rotate_right(x, 2), rotate_right(x, 13)), rotate_right(x, 22))

SIGMA1(x) == BitXor(BitXor(rotate_right(x, 6), rotate_right(x, 11)), rotate_right(x, 25))

sigma0(x) == BitXor(BitXor(rotate_right(x, 7), rotate_right(x, 18)), Shr(x, 3))

\* sigma1 with the shift written as a rotation
sigma1Rotating(x) == BitXor(BitXor(rotate_right(x, 17), rotate_right(x, 19)), rotate_right(x, 10))

sigma1(x) == BitXor(BitXor(rotate_right(x, 17), rotate_right(x, 19)), Shr(x, 10))

-----------------------------------------------------------------------------
(* hash *)

\* let mut w = [0; BLOCK_SIZE]; for t in 0..BLOCK_SIZE / 4 { w[t] = block[t]; }
ScheduleCopy(blk) ==
    [i \in 0..(BLOCK_SIZE - 1) |-> IF i < BLOCK_SIZE \div 4 THEN blk[i] ELSE Zero32]

\* the value assigned to w[t] for t in BLOCK_SIZE / 4 .. BLOCK_SIZE
ScheduleWord(sched, i) ==
    wrapping_add(
        wrapping_add(
            wrapping_add(sigma1(sched[i - 2]), sched[i - 7]),
            sigma0(sched[i - 15])),
        sched[i - 16])

\* let t1 = h + SIGMA1(e) + ch(e, f, g) + K[t] + w[t], all wrapping
T1(v, i, sched) ==
    wrapping_add(
        wrapping_add(
            wrapping_add(
                wrapping_add(v[7], SIGMA1(v[4])),
                ch(v[4], v[5], v[6])),
            K[i]),
        sched[i])

\* let t2 = SIGMA0(a) + maj(a, b, c), wrapping
T2(v) == wrapping_add(SIGMA0(v[0]), maj(v[0], v[1], v[2]))

\* a round that adds t2 where t1 belongs: e = d + t2
RoundStepSwapped(v, i, sched) ==
    LET t1 == T1(v, i, sched)
        t2 == T2(v)
    IN  [j \in 0..7 |->
            CASE j = 0 -> wrapping_add(t1, t2)
              [] j = 4 -> wrapping_add(v[3], t2)
              [] OTHER -> v[j - 1]]

\* one iteration of `for t in 0..BLOCK_SIZE`; v = (a, b, c, d, e, f, g, h) as 0..7
RoundStep(v, i, sched) ==
    LET t1 == T1(v, i, sched)
        t2 == T2(v)
    IN  [j \in 0..7 |->
            CASE j = 7 -> v[6]
              [] j = 6 -> v[5]
              [] j = 5 -> v[4]
              [] j = 4 -> wrapping_add(v[3], t1)
              [] j = 3 -> v[2]
              [] j = 2 -> v[1]
              [] j = 1 -> v[0]
              [] j = 0 -> wrapping_add(t1, t2)]

\* state = [a.wrapping_add(state[0]), ..., h.wrapping_add(state[7])]
FoldState(v, st) == [j \in 0..7 |-> wrapping_add(v[j], st[j])]

\* let mut state = SHA256::H.clone();
HashBegin ==
    /\ pc = "hash"
    /\ state' = H
    /\ bi' = 1
    /\ pc' = "hash_block"
    /\ UNCHANGED <<message, bytes, len, padded, pos, idx, shift, block, blocks,
                   w, t, wv, hashed, result>>

\* for block in blocks { let mut w = ...; first loop of the schedule
HashBlock ==
    /\ pc = "hash_block"
    /\ bi <= Len(blocks)
    /\ w' = ScheduleCopy(blocks[bi])
    /\ t' = BLOCK_SIZE \div 4
    /\ pc' = "hash_schedule"
    /\ UNCHANGED <<message, bytes, len, padded, pos, idx, shift, block, blocks,
                   state, bi, wv, hashed, result>>

\* one iteration of `for t in (BLOCK_SIZE / 4)..BLOCK_SIZE`
HashSchedule ==
    /\ pc = "hash_schedule"
    /\ t < BLOCK_SIZE
    /\ w' = [w EXCEPT ![t] = ScheduleWord(w, t)]
    /\ t' = t + 1
    /\ UNCHANGED <<pc, message, bytes, len, padded, pos, idx, shift, block,
                   blocks, state, bi, wv, hashed, result>>

\* let (mut a, ..., mut h) = (state[0], ..., state[7]);
HashWorking ==
    /\ pc = "hash_schedule"
    /\ t = BLOCK_SIZE
    /\ wv' = state
    /\ t' = 0
    /\ pc' = "hash_rounds"
    /\ UNCHANGED <<message, bytes, len, padded, pos, idx, shift, block, blocks,
                   state, bi, w, hashed, result>>

\* one iteration of `for t in 0..BLOCK_SIZE`
HashRound ==
    /\ pc = "hash_rounds"
    /\ t < BLOCK_SIZE
    /\ wv' = RoundStep(wv, t, w)
    /\ t' = t + 1
    /\ UNCHANGED <<pc, message, bytes, len, padded, pos, idx, shift, block,
                   blocks, state, bi, w, hashed, result>>

\* state = [a.wrapping_add(state[0]), ...]; the next block
HashFold ==
    /\ pc = "hash_rounds"
    /\ t = BLOCK_SIZE
    /\ state' = FoldState(wv, state)
    /\ bi' = bi + 1
    /\ pc' = "hash_block"
    /\ UNCHANGED <<message, bytes, len, padded, pos, idx, shift, block, blocks,
                   w, t, wv, hashed, result>>

\* the loop is over: hash returns state
HashReturn ==
    /\ pc = "hash_block"
    /\ bi > Len(blocks)
    /\ hashed' = state
    /\ pc' = "format"
    /\ UNCHANGED <<message, bytes, len, padded, pos, idx, shift, block, blocks,
                   state, bi, w, t, wv, result>>

HashNext ==
    \/ HashBegin
    \/ HashBlock
    \/ HashSchedule
    \/ HashWorking
    \/ HashRound
    \/ HashFold
    \/ HashReturn

-----------------------------------------------------------------------------
(* into_512bit_blocks *)

\* the byte assigned instead of or-ed in: block[idx] = (*byte as u32) << shift
PlaceByteAssigned(blk, i, byte, sh) ==
    [blk EXCEPT ![i] = Shl(U32FromU8(byte), sh)]

\* block[idx] |= (*byte as u32) << shift
PlaceByte(blk, i, byte, sh) ==
    [blk EXCEPT ![i] = BitOr(@, Shl(U32FromU8(byte), sh))]

\* let mut blocks = Vec::with_capacity(..); let mut idx = 0;
\* let mut shift = 32; let mut block = [0; 16];
BlocksBegin ==
    /\ pc = "into_512bit_blocks"
    /\ blocks' = <<>>
    /\ idx' = 0
    /\ shift' = 32
    /\ block' = [i \in 0..15 |-> Zero32]
    /\ pos' = 1
    /\ pc' = "blocks_loop"
    /\ UNCHANGED <<message, bytes, len, padded, state, bi, w, t, wv, hashed,
                   result>>

\* one iteration of `for byte in padded.iter()`
BlocksByte ==
    /\ pc = "blocks_loop"
    /\ pos <= Len(padded)
    /\ LET sh   == shift - 8
           blk  == PlaceByte(block, idx, padded[pos], sh)
           idx1 == IF sh = 0 THEN idx + 1 ELSE idx
       IN  /\ shift' = (IF sh = 0 THEN 32 ELSE sh)
           /\ IF idx1 = 16
              THEN /\ blocks' = Append(blocks, blk)
                   /\ block' = [i \in 0..15 |-> Zero32]
                   /\ idx' = 0
              ELSE /\ blocks' = blocks
                   /\ block' = blk
                   /\ idx' = idx1
    /\ pos' = pos + 1
    /\ UNCHANGED <<pc, message, bytes, len, padded, state, bi, w, t, wv,
                   hashed, result>>

\* the iterator is exhausted: into_512bit_blocks returns blocks
BlocksReturn ==
    /\ pc = "blocks_loop"
    /\ pos > Len(padded)
    /\ pc' = "hash"
    /\ UNCHANGED <<message, bytes, len, padded, pos, idx, shift, block, blocks,
                   state, bi, w, t, wv, hashed, result>>

BlocksNext ==
    \/ BlocksBegin
    \/ BlocksByte
    \/ BlocksReturn

-----------------------------------------------------------------------------
(* add_padding *)
(* The Vec `message` is the pair (bytes, len).  len is a usize of a 64-bit *)
(* target: 8 bytes, most significant first.  A Vec too long to be written  *)
(* out as a sequence has bytes = <<>> and its length in len alone; padded  *)
(* then holds what add_padding appends to the message.                     *)

\* the usize n, for n < 2^31
ToUsize(n) ==
    <<0, 0, 0, 0, (n \div 16777216) % 256, (n \div 65536) % 256,
      (n \div 256) % 256, n % 256>>

\* len % SHA256::BLOCK_SIZE (BLOCK_SIZE divides 256)
LenModBlock(l) == l[8] % BLOCK_SIZE

\* len * 8 overflows the usize
MulOverflows(l) == l[1] \div 32 > 0

\* (len * 8) as u64, the product taken modulo 2^64
LenBits(l) ==
    [i \in 1..8 |-> ((l[i] * 8) % 256) + (IF i < 8 THEN l[i + 1] \div 32 ELSE 0)]

\* (len_bits >> n) as u8, for n a multiple of 8
ShrAsU8(v, n) == v[8 - (n \div 8)]

\* tmp filled with the delimiter: vec![DELIMITER as u8; BLOCK_SIZE]
TmpAllDelimiter == [i \in 1..BLOCK_SIZE |-> DELIMITER]

\* let mut tmp = vec![0x00; BLOCK_SIZE]; tmp[0] = DELIMITER as u8;
Tmp == [i \in 1..BLOCK_SIZE |-> IF i = 1 THEN DELIMITER ELSE 0]

\* the comparison written <= : a message ending 56 bytes into a block gets
\* no delimiter and no second block
FillLenInclusive(l) ==
    IF LenModBlock(l) <= BLOCK_SIZE - SIZE_BYTES
    THEN BLOCK_SIZE - SIZE_BYTES - LenModBlock(l)
    ELSE BLOCK_SIZE + BLOCK_SIZE - SIZE_BYTES - LenModBlock(l)

\* the end of the range tmp[0..n] that is appended to the message
FillLen(l) ==
    IF LenModBlock(l) < BLOCK_SIZE - SIZE_BYTES
    THEN BLOCK_SIZE - SIZE_BYTES - LenModBlock(l)
    ELSE BLOCK_SIZE + BLOCK_SIZE - SIZE_BYTES - LenModBlock(l)

\* let mut size = vec![0x00; 8]; size[4] = (len_bits >> 24) as u8; ...
SizeField(len_bits) ==
    <<0, 0, 0, 0, ShrAsU8(len_bits, 24), ShrAsU8(len_bits, 16),
      ShrAsU8(len_bits, 8), ShrAsU8(len_bits, 0)>>

\* vec![padded, size].concat()
Padded(msg, l) == msg \o SubSeq(Tmp, 1, FillLen(l)) \o SizeField(LenBits(l))

\* `len * 8` is checked in a build with overflow checks (it panics) and
\* wraps in a build without them
AddPadding ==
    /\ pc = "add_padding"
    /\ \E overflow_checks \in BOOLEAN :
          IF overflow_checks /\ MulOverflows(len)
          THEN /\ pc' = "panic"
               /\ padded' = padded
          ELSE /\ pc' = "into_512bit_blocks"
               /\ padded' = Padded(bytes, len)
    /\ UNCHANGED <<message, bytes, len, pos, idx, shift, block, blocks, state,
                   bi, w, t, wv, hashed, result>>

-----------------------------------------------------------------------------
(* exec *)

\* message.into_bytes(): the UTF-8 encoding of one Unicode scalar value
Utf8(c) ==
    IF c < 128 THEN <<c>>
    ELSE IF c < 2048 THEN <<192 + (c \div 64), 128 + (c % 64)>>
    ELSE IF c < 65536
         THEN <<224 + (c \div 4096), 128 + ((c \div 64) % 64), 128 + (c % 64)>>
    ELSE <<240 + (c \div 262144), 128 + ((c \div 4096) % 64),
           128 + ((c \div 64) % 64), 128 + (c % 64)>>

\* message.into_bytes()
RECURSIVE into_bytes(_)
into_bytes(s) == IF s = <<>> THEN <<>> ELSE Utf8(Head(s)) \o into_bytes(Tail(s))

HexDigit ==
    <<"0", "1", "2", "3", "4", "5", "6", "7", "8", "9", "a", "b", "c", "d", "e", "f">>

\* the k-th hexadecimal digit of x, k in 1..8 from the most significant
Nibble(x, k) == 8 * x[4 * k - 3] + 4 * x[4 * k - 2] + 2 * x[4 * k - 1] + x[4 * k]

\* format!("{:x}", n): lowercase, no leading zeros, at least one digit
LowerHex(x) ==
    LET lead == { k \in 1..8 : Nibble(x, k) # 0 }
        first == IF lead = {} THEN 8 ELSE CHOOSE k \in lead : \A j \in lead : k <= j
        D(k) == IF k < first THEN "" ELSE HexDigit[Nibble(x, k) + 1]
    IN  D(1) \o D(2) \o D(3) \o D(4) \o D(5) \o D(6) \o D(7) \o D(8)

\* hashed.iter().map(|n| format!("{:x}", n)).collect::<Vec<String>>().join("")
JoinHex(hs) ==
    LowerHex(hs[0]) \o LowerHex(hs[1]) \o LowerHex(hs[2]) \o LowerHex(hs[3])
    \o LowerHex(hs[4]) \o LowerHex(hs[5]) \o LowerHex(hs[6]) \o LowerHex(hs[7])

\* let bytes = message.into_bytes(); the call of add_padding
ExecBytes ==
    /\ pc = "exec"
    /\ bytes' = into_bytes(message)
    /\ len' = ToUsize(Len(bytes'))
    /\ pc' = "add_padding"
    /\ UNCHANGED <<message, padded, pos, idx, shift, block, blocks, state, bi,
                   w, t, wv, hashed, result>>

\* the joined hex string is exec's result
ExecFormat ==
    /\ pc = "format"
    /\ result' = JoinHex(hashed)
    /\ pc' = "done"
    /\ UNCHANGED <<message, bytes, len, padded, pos, idx, shift, block, blocks,
                   state, bi, w, t, wv, hashed>>

-----------------------------------------------------------------------------
(* values of the variables a function has not assigned yet *)

ZeroBlock == [i \in 0..15 |-> Zero32]

NoState == [i \in 0..7 |-> Zero32]

NoSchedule == [i \in 0..(BLOCK_SIZE - 1) |-> Zero32]

NoLen == <<0, 0, 0, 0, 0, 0, 0, 0>>

\* the locals of into_512bit_blocks, hash and exec before they are assigned
NoLocals ==
    /\ pos = 0
    /\ idx = 0
    /\ shift = 0
    /\ block = ZeroBlock
    /\ state = NoState
    /\ bi = 0
    /\ w = NoSchedule
    /\ t = 0
    /\ wv = NoState
    /\ hashed = NoState
    /\ result = ""

-----------------------------------------------------------------------------
(* hash called on its own: pub fn hash(self, blocks: Vec<[u32; 16]>) *)

\* the longest block sequence given to hash
MaxBlocks == 2

Ones32 == [i \in 1..32 |-> 1]

\* a stream of blocks: the one block of the padded message "abc", all ones
\* (every addition wraps), all zero, and then blocks of distinct words
SomeBlock(k) ==
    CASE k = 1 -> [i \in 0..15 |-> CASE i = 0 -> Hex32(\h6162, \h6380)
                                     [] i = 15 -> Hex32(\h0000, \h0018)
                                     [] OTHER -> Zero32]
      [] k = 2 -> [i \in 0..15 |-> Ones32]
      [] k = 3 -> ZeroBlock
      [] OTHER -> [i \in 0..15 |-> Hex32((\h8001 + 257 * i + 4099 * k) % 65536,
                                         (\hfff0 + 61441 * i + 8191 * k) % 65536)]

\* every run of up to MaxBlocks consecutive blocks of the stream that
\* starts at one of its first four blocks
HashInputs == { [i \in 1..n |-> SomeBlock(s + i)] : n \in 0..MaxBlocks, s \in 0..3 }

InitHash ==
    /\ pc = "hash"
    /\ blocks \in HashInputs
    /\ message = <<>>
    /\ bytes = <<>>
    /\ len = NoLen
    /\ padded = <<>>
    /\ NoLocals

SpecHash == InitHash /\ [][HashNext]_vars

-----------------------------------------------------------------------------
(* into_512bit_blocks called on its own, as the tests of the module do *)

\* the longest byte sequence given to into_512bit_blocks
MaxPaddedLen == 130

\* n bytes that differ from place to place and take values on both sides
\* of 0x80
SomeBytes(n) == [i \in 1..n |-> (37 * i + 91 * n + 101) % 256]

InitBlocks ==
    /\ pc = "into_512bit_blocks"
    /\ padded \in { SomeBytes(n) : n \in 0..MaxPaddedLen }
    /\ message = <<>>
    /\ bytes = <<>>
    /\ len = NoLen
    /\ blocks = <<>>
    /\ NoLocals

SpecBlocks == InitBlocks /\ [][BlocksNext]_vars

-----------------------------------------------------------------------------
(* add_padding called on its own: pub fn add_padding(self, message: Vec<u8>) *)

\* the longest message written out byte by byte
MaxMsgLen == 130

\* lengths around 2^29 bytes (2^32 bits), around 2^61 bytes (2^64 bits) and
\* up to isize::MAX, with every residue modulo 64 that matters
LongLens ==
    { <<b1, f, f, b4, b5, f, f, b8>> :
        b1 \in {0, 31, 32, 127}, b4 \in {0, 1}, b5 \in {0, 31, 32},
        b8 \in {0, 55, 56, 63, 255}, f \in {0, 255} }

InitPad ==
    /\ pc = "add_padding"
    /\ \/ \E n \in 0..MaxMsgLen : bytes = SomeBytes(n) /\ len = ToUsize(n)
       \/ bytes = <<>> /\ len \in LongLens
    /\ message = <<>>
    /\ padded = <<>>
    /\ blocks = <<>>
    /\ NoLocals

SpecPad == InitPad /\ [][AddPadding]_vars

-----------------------------------------------------------------------------
(* exec *)

\* messages with their SHA-256 digests (FIPS 180-2), the digests computed
\* by an independent implementation.  "hello", "hello world" and the five
\* hiragana are the messages of test_sha256_exec.
KnownAnswers ==
    { [text |-> "",
       msg |-> <<>>,
       sha256 |-> "e3b0c44298fc1c149afbf4c8996fb92427ae41e4649b934ca495991b7852b855"],
      [text |-> "a",
       msg |-> <<97>>,
       sha256 |-> "ca978112ca1bbdcafac231b39a23dc4da786eff8147c4e72b9807785afee48bb"],
      [text |-> "b",
       msg |-> <<98>>,
       sha256 |-> "3e23e8160039594a33894f6564e1b1348bbd7a0088d42c4acb73eeaed59c009d"],
      [text |-> "abc",
       msg |-> <<97, 98, 99>>,
       sha256 |-> "ba7816bf8f01cfea414140de5dae2223b00361a396177a9cb410ff61f20015ad"],
      [text |-> "hello",
       msg |-> <<104, 101, 108, 108, 111>>,
       sha256 |-> "2cf24dba5fb0a30e26e83b2ac5b9e29e1b161e5c1fa7425e73043362938b9824"],
      [text |-> "hello world",
       msg |-> <<104, 101, 108, 108, 111, 32, 119, 111, 114, 108, 100>>,
       sha256 |-> "b94d27b9934d3e08a52e52d7da7dabfac484efe37a5380ee9088f7ace2efcde9"],
      [text |-> "U+3042 U+3044 U+3046 U+3048 U+304A",
       msg |-> <<12354, 12356, 12358, 12360, 12362>>,
       sha256 |-> "fdb481ea956fdb654afcc327cff9b626966b2abdabc3f3e6dbcb1667a888ed9a"],
      [text |-> "U+00E9",
       msg |-> <<233>>,
       sha256 |-> "4a99557e4033c3539de2eb65472017cad5f9557f7a0625a09f1c3f6e2ba69c4c"],
      [text |-> "U+1F600",
       msg |-> <<128512>>,
       sha256 |-> "f0443a342c5ef54783a111b51ba56c938e474c32324d90c3a60c9c8e3a37e2d9"],
      [text |-> "abcdbcdecdefdefgefghfghighijhijkijkljklmklmnlmnomnopnopq",
       msg |-> <<97, 98, 99, 100, 98, 99, 100, 101, 99, 100, 101, 102, 100, 101,
                 102, 103, 101, 102, 103, 104, 102, 103, 104, 105, 103, 104,
                 105, 106, 104, 105, 106, 107, 105, 106, 107, 108, 106, 107,
                 108, 109, 107, 108, 109, 110, 108, 109, 110, 111, 109, 110,
                 111, 112, 110, 111, 112, 113>>,
       sha256 |-> "248d6a61d20638b8e5c026930c3e6039a33ce45964ff2167f6ecedd419db06c1"],
      [text |-> "a, 64 times",
       msg |-> [i \in 1..64 |-> 97],
       sha256 |-> "ffe054fe7ae0cb6dc65c3af9b61d5209f439851db43d0ba5997337df154668eb"] }

Messages == { v.msg : v \in KnownAnswers }

Init ==
    /\ pc = "exec"
    /\ message \in Messages
    /\ bytes = <<>>
    /\ len = NoLen
    /\ padded = <<>>
    /\ blocks = <<>>
    /\ NoLocals

Next ==
    \/ ExecBytes
    \/ AddPadding
    \/ BlocksBegin
    \/ BlocksByte
    \/ BlocksReturn
    \/ HashBegin
    \/ HashBlock
    \/ HashSchedule
    \/ HashWorking
    \/ HashRound
    \/ HashFold
    \/ HashReturn
    \/ ExecFormat

Spec == Init /\ [][Next]_vars

-----------------------------------------------------------------------------
(* FIPS 180-2 and the specification's formulas, written without the        *)
(* operators above: bits are numbered from the least significant (bit 0),  *)
(* and a sum is reduced modulo 2^32 once.                                  *)

\* bit k of x, k = 0 the least significant
BitOf(x, k) == x[32 - k]

\* the word whose bit k is f(k)
WordOfBits(f(_)) == [i \in 1..32 |-> f(32 - i)]

RefRotr(x, n) == LET f(k) == BitOf(x, (k + n) % 32) IN WordOfBits(f)

RefShr(x, n) == LET f(k) == IF k + n <= 31 THEN BitOf(x, k + n) ELSE 0 IN WordOfBits(f)

RefXor3(x, y, z) == LET f(k) == (BitOf(x, k) + BitOf(y, k) + BitOf(z, k)) % 2 IN WordOfBits(f)

\* Ch(x,y,z) = (x AND y) XOR (NOT x AND z): x chooses between y and z
RefCh(x, y, z) == LET f(k) == IF BitOf(x, k) = 1 THEN BitOf(y, k) ELSE BitOf(z, k) IN WordOfBits(f)

\* Maj(x,y,z) = (x AND y) XOR (x AND z) XOR (y AND z): the majority
RefMaj(x, y, z) == LET f(k) == IF BitOf(x, k) + BitOf(y, k) + BitOf(z, k) >= 2 THEN 1 ELSE 0 IN WordOfBits(f)

RefBigSigma0(x) == RefXor3(RefRotr(x, 2), RefRotr(x, 13), RefRotr(x, 22))

RefBigSigma1(x) == RefXor3(RefRotr(x, 6), RefRotr(x, 11), RefRotr(x, 25))

RefSmallSigma0(x) == RefXor3(RefRotr(x, 7), RefRotr(x, 18), RefShr(x, 3))

RefSmallSigma1(x) == RefXor3(RefRotr(x, 17), RefRotr(x, 19), RefShr(x, 10))

\* the sum of the words of the tuple ops, modulo 2^32
RefSum(ops) ==
    LET RECURSIVE Total(_, _)
        Total(half(_), k) == IF k = 0 THEN 0 ELSE half(ops[k]) + Total(half, k - 1)
        lo == Total(Lo16, Len(ops))
        hi == Total(Hi16, Len(ops)) + (lo \div 65536)
    IN  Hex32(hi % 65536, lo % 65536)

\* the big-endian packing of four bytes
RefPack(b0, b1, b2, b3) == Hex32(256 * b0 + b1, 256 * b2 + b3)

\* byte k (0 the most significant) of the word x
RefByte(x, k) ==
    LET f(j) == BitOf(x, 8 * (3 - k) + j)
    IN  128 * f(7) + 64 * f(6) + 32 * f(5) + 16 * f(4) + 8 * f(3) + 4 * f(2) + 2 * f(1) + f(0)

\* twice the 64-bit number v (8 bytes, most significant first), modulo 2^64
RefDouble(v) ==
    [i \in 1..8 |-> (2 * v[i] + (IF i < 8 THEN v[i + 1] \div 128 ELSE 0)) % 256]

\* word x as exactly 8 lowercase hexadecimal digits
RefHex8(x) ==
    LET D(k) == HexDigit[8 * BitOf(x, 4 * k + 3) + 4 * BitOf(x, 4 * k + 2)
                         + 2 * BitOf(x, 4 * k + 1) + BitOf(x, 4 * k) + 1]
    IN  D(7) \o D(6) \o D(5) \o D(4) \o D(3) \o D(2) \o D(1) \o D(0)

RefDigestHex(hs) ==
    RefHex8(hs[0]) \o RefHex8(hs[1]) \o RefHex8(hs[2]) \o RefHex8(hs[3])
    \o RefHex8(hs[4]) \o RefHex8(hs[5]) \o RefHex8(hs[6]) \o RefHex8(hs[7])

\* the FIPS 180-2 digest of message m, from the table of known answers
Sha256Hex(m) == (CHOOSE v \in KnownAnswers : v.msg = m).sha256

\* the eight words hash returns are the FIPS 180-2 digest of the message
HashWordsAreSha256 == pc \in {"format", "done"} => RefDigestHex(hashed) = Sha256Hex(message)

-----------------------------------------------------------------------------
(* exec (Spec) *)

\* C1: for every message, exec returns the FIPS 180-2 SHA-256 digest of the
\* message's UTF-8 bytes in lowercase hexadecimal.
ExecIsSha256 == pc = "done" => result = Sha256Hex(message)

\* C2: for every message, exec returns exactly 64 characters: each of the 8
\* words of hash as exactly 8 hexadecimal digits, zero-padded on the left,
\* in word order.
ExecIs64Digits == pc = "done" => Len(result) = 64 /\ result = RefDigestHex(hashed)

-----------------------------------------------------------------------------
(* add_padding (SpecPad) *)

\* add_padding has returned normally
PaddingReturned == pc = "into_512bit_blocks"

\* bytes holds the whole message
WrittenOut == len = ToUsize(Len(bytes))

\* the last 8 bytes of the padded message
LengthField == SubSeq(padded, Len(padded) - 7, Len(padded))

\* C3: for every message of L < 2^61 bytes, the last 8 bytes of
\* add_padding's result are L * 8 as a big-endian 64-bit integer, also when
\* L * 8 >= 2^32.
LengthFieldIsBitLength ==
    (PaddingReturned /\ len[1] < 32) => LengthField = RefDouble(RefDouble(RefDouble(len)))

\* C4: the length of add_padding's result is a multiple of 64, at least
\* L + 9 and the smallest such: 64 * (floor((L + 8) / 64) + 1).  For a
\* message not written out the same is said of what is appended: between 9
\* and 72 bytes, reaching the next multiple of 64.
PaddedLength ==
    PaddingReturned =>
        LET L == Len(bytes)
            P == Len(padded)
        IN  /\ WrittenOut =>
                /\ P % 64 = 0
                /\ P >= L + 9
                /\ P = 64 * (((L + 8) \div 64) + 1)
            /\ P - L \in 9..72
            /\ (len[8] + (P - L)) % 64 = 0

\* C4: a 56-byte message has been padded to two blocks
PaddedLengthWitness == PaddingReturned /\ WrittenOut /\ Len(bytes) = 56 /\ Len(padded) = 128

\* C5: add_padding's result starts with the message unchanged, has 0x80 at
\* offset L and only zero bytes from offset L + 1 up to the 8-byte length
\* field.
PaddingContent ==
    PaddingReturned =>
        LET L == Len(bytes)
            P == Len(padded)
        IN  /\ P >= L + 9
            /\ SubSeq(padded, 1, L) = bytes
            /\ padded[L + 1] = 128
            /\ \A i \in (L + 2)..(P - 8) : padded[i] = 0

\* C5: a block-aligned message with non-zero bytes has been padded, and
\* zero fill lies between the delimiter and the length field
PaddingContentWitness ==
    /\ PaddingReturned
    /\ WrittenOut
    /\ Len(bytes) = 64
    /\ \E i \in 1..64 : bytes[i] > 128
    /\ Len(padded) = 128
    /\ padded[65] = 128

\* C7: a message of 2^61 bytes or more is rejected before padding:
\* add_padding never returns a padded message for it.
TooLargeIsRejected == len[1] >= 32 => ~PaddingReturned

-----------------------------------------------------------------------------
(* into_512bit_blocks (SpecBlocks) *)

\* into_512bit_blocks has returned normally
BlocksReturned == pc = "hash"

\* C6: for a byte sequence p whose length is a multiple of 64,
\* into_512bit_blocks returns len(p) / 64 blocks in stream order, word j of
\* block i being the big-endian packing of p[64i + 4j .. 64i + 4j + 3], and
\* the words written back as big-endian bytes are p.
BlocksRoundTrip ==
    (BlocksReturned /\ Len(padded) % 64 = 0) =>
        /\ Len(blocks) = Len(padded) \div 64
        /\ \A i \in 1..Len(blocks) : \A j \in 0..15 :
              LET o == 64 * (i - 1) + 4 * j
              IN  blocks[i][j] = RefPack(padded[o + 1], padded[o + 2], padded[o + 3], padded[o + 4])
        /\ padded = [p \in 1..(64 * Len(blocks)) |->
                        RefByte(blocks[((p - 1) \div 64) + 1][((p - 1) % 64) \div 4], (p - 1) % 4)]

\* C6: two blocks have been parsed from 128 bytes
BlocksRoundTripWitness ==
    /\ BlocksReturned
    /\ Len(padded) = 128
    /\ Len(blocks) = 2
    /\ blocks[2][15] # Zero32

\* C8: given a byte sequence whose length is not a multiple of 64,
\* into_512bit_blocks does not return normally.
PartialBlockIsFatal == BlocksReturned => Len(padded) % 64 = 0

-----------------------------------------------------------------------------
(* hash (SpecHash) *)

\* the working variables after one round, by the specification's formulas
RefRound(v, k, wt) ==
    LET T1r == RefSum(<<v[7], RefBigSigma1(v[4]), RefCh(v[4], v[5], v[6]), k, wt>>)
        T2r == RefSum(<<RefBigSigma0(v[0]), RefMaj(v[0], v[1], v[2])>>)
    IN  [j \in 0..7 |->
            CASE j = 0 -> RefSum(<<T1r, T2r>>)
              [] j = 4 -> RefSum(<<v[3], T1r>>)
              [] OTHER -> v[j - 1]]

\* what one step of hash must do
HashStepIsFold ==
    /\ pc = "hash" => state' = H /\ bi' = 1
    /\ (pc = "hash_block" /\ pc' = "hash_schedule") => bi \in 1..Len(blocks) /\ state' = state
    /\ (pc = "hash_schedule" /\ pc' = "hash_rounds") => wv' = state /\ t' = 0 /\ state' = state
    /\ (pc = "hash_rounds" /\ pc' = "hash_rounds") =>
          /\ t \in 0..63
          /\ t' = t + 1
          /\ wv' = RefRound(wv, K[t], w[t])
          /\ state' = state
          /\ bi' = bi
    /\ (pc = "hash_rounds" /\ pc' = "hash_block") =>
          /\ t = 64
          /\ state' = [i \in 0..7 |-> RefSum(<<state[i], wv[i]>>)]
          /\ bi' = bi + 1
    /\ (pc = "hash_block" /\ pc' = "format") => bi = Len(blocks) + 1 /\ hashed' = state
    /\ state' \in [0..7 -> U32]
    /\ wv' \in [0..7 -> U32]
    /\ (pc' = "format" /\ blocks = <<>>) => hashed' = H

\* C9: hash folds the per-block compression over the blocks in order,
\* starting from H: working variables from the current state, 64 rounds
\* t = 0..63 in ascending order by the T1/T2 formulas, then
\* state'[i] = state[i] + (a..h)[i], every addition modulo 2^32; for no
\* blocks the result is H.
HashIsFold == [][HashStepIsFold]_vars

\* C9: hash has returned the digest of "abc" for the one block of its
\* padded message
HashIsFoldWitness ==
    /\ pc = "format"
    /\ Len(blocks) = 1
    /\ blocks[1][0] = Hex32(\h6162, \h6380)
    /\ RefDigestHex(hashed) = "ba7816bf8f01cfea414140de5dae2223b00361a396177a9cb410ff61f20015ad"

\* C10: W[t] = block[t] for t in 0..15 and W[t] = sigma1(W[t-2]) + W[t-7]
\* + sigma0(W[t-15]) + W[t-16] modulo 2^32 for t in 16..63; entries are
\* filled in increasing t from entries already filled in, and W is rebuilt
\* from zeros for each block.
ScheduleRecurrence ==
    pc \in {"hash_schedule", "hash_rounds"} =>
        LET filled == IF pc = "hash_schedule" THEN t ELSE 64
        IN  /\ bi \in 1..Len(blocks)
            /\ \A i \in 0..15 : w[i] = blocks[bi][i]
            /\ \A i \in 16..(filled - 1) :
                  w[i] = RefSum(<<RefSmallSigma1(w[i - 2]), w[i - 7],
                                  RefSmallSigma0(w[i - 15]), w[i - 16]>>)
            /\ \A i \in filled..63 : w[i] = Zero32

\* C10: the schedule of the second block of a sequence is complete
ScheduleRecurrenceWitness ==
    /\ pc = "hash_rounds"
    /\ bi = 2
    /\ blocks[1] # blocks[2]
    /\ w[0] # Zero32
    /\ w[63] # Zero32

=============================================================================
